---- MODULE Spec2Model ----
(***************************************************************************)
(* Model of the photo editor of src/components/cpf/PhotoEditorModal.tsx:   *)
(* the React state of the component (rotation, scale, bgRemoveMode,        *)
(* tolerance, history, originalImage), the pixel content of the <canvas>   *)
(* element behind canvasRef, the event handlers, and the render effect.    *)
(*                                                                         *)
(* A pixel buffer (ImageData) is a record [width, height, data] whose data *)
(* is the row-major byte sequence R,G,B,A of every pixel.  TLA+ sequences  *)
(* start at 1, so the byte the code reads as data[i] is data[i + 1] here.  *)
(*                                                                         *)
(* React runs the effect of a render before the next event is handled, so  *)
(* the handlers are enabled only when no effect is pending; the state      *)
(* between a handler and its effect is a state of the model.  In the same  *)
(* way the parent's re-render after onOpenChange(false) and the callback   *)
(* of canvas.toBlob come before the next gesture.                          *)
(*                                                                         *)
(* The component stays mounted while the dialog is closed: its state lives *)
(* on, the <canvas> is unmounted (canvasRef.current is null) and a new,    *)
(* blank one is mounted when the dialog opens again.                       *)
(***************************************************************************)
EXTENDS Integers, Sequences, FiniteSets, TLC

VARIABLES
    open,           \* the open prop, line 18
    loading,        \* the images whose load (lines 35-43) is in flight
    closeRequested, \* onOpenChange(false) was called, the parent has not
                    \* re-rendered yet
    exportPending,  \* the bitmap canvas.toBlob (line 190) is encoding
    onSaveFile,     \* the file onSave (line 197) was handed and the parent has
                    \* not yet taken
    fileName,       \* the fileName prop, line 13
    imageUrl,       \* the imageUrl prop, line 12: the picture last asked for
    probe,          \* inputs and result of a computation checked on its own
    ready,          \* observer: an image finished loading since the dialog opened
    rotation,       \* useState(0), line 25
    scale,          \* useState(100), line 26
    bgRemoveMode,   \* useState(false), line 27
    tolerance,      \* useState(30), line 28
    history,        \* useState<ImageData[]>([]), line 29
    originalImage,  \* useState<HTMLImageElement | null>(null), line 30
    canvas,         \* the pixels of canvasRef.current
    effectPending,  \* the renderCanvas effect of lines 77-79 is due
    gesture,        \* observer: the last handler that ran
    seed,           \* observer: the seed of the last click (kept by an undo)
    preCanvas,      \* observer: the canvas just before the last handler
    preHistory,     \* observer: the history just before the last handler
    clickBefore,    \* observer: the canvas just before the last click, while
                    \* that click is the last handler or the one an undo followed
    geometryChanged,\* observer: "no", or whether edits existed ("edited") or
                    \* not ("clean") at the last rotation or scale change, while
                    \* nothing but undos (and their effects) followed it
    noopUndos,      \* observer: how many undos in a row found nothing to
                    \* undo (at most 2 counted)
    erased          \* observer: pixels made transparent by clicks since the
                    \* last undo, rotation, scale change or image load

vars == <<open, loading, closeRequested, exportPending, onSaveFile, fileName,
          imageUrl, probe,
          ready, rotation, scale, bgRemoveMode, tolerance, history,
          originalImage, canvas, effectPending, gesture, seed, preCanvas,
          preHistory, clickBefore, geometryChanged, noopUndos, erased>>

(***************************************************************************)
(* Bounds of the model.                                                    *)
(***************************************************************************)
\* Longest history the model lets clicks build.
MaxHistory == 3
\* Most pixels of a buffer drawn as input of the flood fill.
MaxPixels == 4
\* pixels of a buffer floodFill is called on with a seed outside it
MaxSeedPixels == 2
\* source widths and heights 1..MaxDim whose canvas size is computed
MaxDim == 3
\* quarter turns in one direction, net
MaxTurns == 4
\* buffer and displayed sizes 1..MaxMapDim a click is mapped between
MaxMapDim == 3
\* image loads in flight at once
MaxLoading == 1
\* characters of a file-name hint
MaxNameLen == 3

\* The records the remote API holds for the list page (3 pages of 20).
MaxRecords == 41

\* The list requests followed while in flight at once.
MaxInFlight == 2

\* The deletions followed on the list page.
MaxDeletes == 2

(***************************************************************************)
(* Pixel buffers.                                                          *)
(***************************************************************************)
NoImage == [width |-> 0, height |-> 0, data |-> <<>>]

\* canvasRef.current while the dialog content is not mounted (null)
NoCanvas == [width |-> 0, height |-> 0, data |-> <<>>]

\* no file handed to onSave
NoFile == [name |-> <<>>, pixels |-> NoImage]

\* Pixel colours the inputs are drawn from: a chain of opaque colours whose
\* red samples are 10 apart, one that differs only in a blue sample near 0,
\* and a transparent one.
P0 == <<100, 100, 100, 255>>
P1 == <<110, 100, 100, 255>>
P2 == <<120, 100, 100, 255>>
P3 == <<100, 100, 5, 255>>
PT == <<100, 100, 100, 0>>
Palette == {P0, P1, P2, P3, PT}

\* The buffer of the given size whose pixel at linear position p (from 0) is px[p + 1].
MkBuffer(w, h, px) ==
    [width |-> w, height |-> h,
     data |-> [i \in 1..(4 * w * h) |-> px[((i - 1) \div 4) + 1][((i - 1) % 4) + 1]]]

\* data[i] of the code
Sample(data, i) == data[i + 1]

\* A fresh <canvas> before anything is drawn on it: transparent black
\* (300x150 in a browser, one pixel here).
BlankCanvas == MkBuffer(1, 1, <<<<0, 0, 0, 0>>>>)

(***************************************************************************)
(* renderCanvas: the rotate-and-scale draw of lines 55-68.                 *)
(***************************************************************************)
\* The dimensions n up to 101 and slider values sc for which the double
\* n * (sc / 100) of lines 56-58 is just below the integer n * sc / 100.
FloatShortfall ==
    {<<45, 140>>, <<85, 140>>, <<90, 70>>, <<90, 140>>, <<100, 115>>}

\* canvas.width = img.width * scaleFactor keeps the integer part of the
\* double (lines 56-61).
ScaledDim(n, sc) ==
    IF <<n, sc>> \in FloatShortfall THEN (n * sc) \div 100 - 1
    ELSE (n * sc) \div 100

isVertical(rot) == rot = 90 \/ rot = 270

\* <<canvas.width, canvas.height>> as lines 55-61 set them for a w x h image
canvasSize(w, h, rot, sc) ==
    IF isVertical(rot) THEN <<ScaledDim(h, sc), ScaledDim(w, sc)>>
    ELSE <<ScaledDim(w, sc), ScaledDim(h, sc)>>

\* The pixel of the w x h scaled image that the clockwise rotation about the
\* canvas centre (lines 65-67) puts at canvas position (x, y).
SourceXY(x, y, w, h, rot) ==
    CASE rot = 0   -> <<x, y>>
      [] rot = 90  -> <<y, h - 1 - x>>
      [] rot = 180 -> <<w - 1 - x, h - 1 - y>>
      [] rot = 270 -> <<w - 1 - y, x>>

\* What lines 57-68 leave on the canvas: img drawn w x h (nearest source pixel),
\* rotated about the centre of a canvas of the swapped or unswapped size.
DrawImage(img, rot, sc) ==
    LET w  == ScaledDim(img.width, sc)
        h  == ScaledDim(img.height, sc)
        cw == canvasSize(img.width, img.height, rot, sc)[1]
        ch == canvasSize(img.width, img.height, rot, sc)[2]
        src(p) == LET s == SourceXY(p % cw, p \div cw, w, h, rot)
                      ox == (s[1] * 100) \div sc
                      oy == (s[2] * 100) \div sc
                  IN  (oy * img.width + ox) * 4
    IN  [width |-> cw, height |-> ch,
         data |-> [i \in 1..(4 * cw * ch) |->
                     Sample(img.data, src((i - 1) \div 4) + ((i - 1) % 4))]]

\* A renderCanvas that redraws only while the history is empty.
renderCanvasOnlyFirst(img, rot, sc, hist, cv) ==
    IF cv = NoCanvas \/ img = NoImage \/ Len(hist) # 0 THEN cv
    ELSE DrawImage(img, rot, sc)

\* The canvas after renderCanvas ran (lines 47-68): untouched without a
\* canvas or an image (line 50).
renderCanvas(img, rot, sc, hist, cv) ==
    IF cv = NoCanvas \/ img = NoImage THEN cv ELSE DrawImage(img, rot, sc)

\* The history renderCanvas sets (lines 70-74), given the canvas it drew
\* (NoCanvas when it returned at line 50).
renderHistory(img, hist, drawn) ==
    IF drawn # NoCanvas /\ img # NoImage /\ Len(hist) = 0 THEN <<drawn>> ELSE hist

(***************************************************************************)
(* floodFill: lines 95-154.                                                *)
(***************************************************************************)
Abs(n) == IF n < 0 THEN -n ELSE n

\* matches without the blue channel
matchesNoBlue(data, idx, target, tol) ==
    /\ Abs(Sample(data, idx) - target[1]) <= tol
    /\ Abs(Sample(data, idx + 1) - target[2]) <= tol
    /\ Sample(data, idx + 3) > 0

\* lines 121-131
matches(data, idx, target, tol) ==
    /\ Abs(Sample(data, idx) - target[1]) <= tol
    /\ Abs(Sample(data, idx + 1) - target[2]) <= tol
    /\ Abs(Sample(data, idx + 2) - target[3]) <= tol
    /\ Sample(data, idx + 3) > 0

\* a write to the wrong channel: data[idx + 2] = 0
makeTransparentBlue(data, idx) == [data EXCEPT ![idx + 3] = 0]

\* line 145: data[idx + 3] = 0
makeTransparent(data, idx) == [data EXCEPT ![idx + 4] = 0]

\* pushes that also visit the diagonal neighbours
pushNeighboursDiagonal(stack, x, y) ==
    stack \o <<x + 1, y, x - 1, y, x, y + 1, x, y - 1, x + 1, y + 1, x - 1, y - 1>>

\* a push of all eight neighbours
pushNeighboursEight(stack, x, y) ==
    stack \o <<x + 1, y, x - 1, y, x, y + 1, x, y - 1,
               x + 1, y + 1, x - 1, y - 1, x + 1, y - 1, x - 1, y + 1>>

\* lines 147-150
pushNeighbours(stack, x, y) ==
    stack \o <<x + 1, y, x - 1, y, x, y + 1, x, y - 1>>

\* The while loop of lines 133-151; the result is the data when the stack is empty.
RECURSIVE FillLoop(_, _, _, _, _, _, _)
FillLoop(data, visited, stack, width, height, target, tol) ==
    IF Len(stack) = 0 THEN data
    ELSE
      LET n    == Len(stack)
          y    == stack[n]
          x    == stack[n - 1]
          rest == SubSeq(stack, 1, n - 2)
          pos  == y * width + x
          idx  == pos * 4
      IN  IF x < 0 \/ x >= width \/ y < 0 \/ y >= height
            THEN FillLoop(data, visited, rest, width, height, target, tol)
          ELSE IF pos \in visited
            THEN FillLoop(data, visited, rest, width, height, target, tol)
          ELSE IF ~matches(data, idx, target, tol)
            THEN FillLoop(data, visited, rest, width, height, target, tol)
          ELSE FillLoop(makeTransparent(data, idx), visited \cup {pos},
                        pushNeighbours(rest, x, y), width, height, target, tol)

\* data[i] where i may lie outside the array (undefined in the code, -1 here)
SampleOrUndefined(data, i) ==
    IF i >= 0 /\ i < Len(data) THEN data[i + 1] ELSE -1

\* The buffer floodFill leaves on the canvas (lines 101-153): the canvas as it
\* was when the seed is already transparent (line 115), the filled copy otherwise.
floodFillCanvas(cv, startX, startY, tol) ==
    LET data     == cv.data
        startIdx == (startY * cv.width + startX) * 4
        target   == <<SampleOrUndefined(data, startIdx),
                      SampleOrUndefined(data, startIdx + 1),
                      SampleOrUndefined(data, startIdx + 2)>>
    IN  IF SampleOrUndefined(data, startIdx + 3) = 0 THEN cv
        ELSE [cv EXCEPT !.data = FillLoop(data, {}, <<startX, startY>>,
                                          cv.width, cv.height, target, tol)]

\* The history floodFill sets (lines 106-108): the snapshot taken before the
\* fill is appended, whatever the seed.
floodFillHistory(hist, cv, startX, startY) == Append(hist, cv)

(***************************************************************************)
(* handleUndo: lines 170-184.                                              *)
(***************************************************************************)
\* an undo that may pop the last remaining entry
handleUndoHistoryNoGuard(hist) ==
    IF Len(hist) = 0 THEN hist ELSE SubSeq(hist, 1, Len(hist) - 1)

\* an undo that pops two entries when it can
handleUndoHistoryPopsTwo(hist) ==
    IF Len(hist) <= 1 THEN hist
    ELSE IF Len(hist) = 2 THEN SubSeq(hist, 1, 1)
    ELSE SubSeq(hist, 1, Len(hist) - 2)

handleUndoHistory(hist) ==
    IF Len(hist) <= 1 THEN hist ELSE SubSeq(hist, 1, Len(hist) - 1)

handleUndoCanvas(hist, cv) ==
    IF Len(hist) <= 1 THEN cv ELSE hist[Len(hist) - 1]

(***************************************************************************)
(* The name of the exported file: lines 195-196.                           *)
(***************************************************************************)
\* Characters (UTF-16 code units) a hint is made of: some of a-z, A-Z, 0-9,
\* the three allowed signs, and some the class [^a-zA-Z0-9_.-] matches.
AllowedChars == {"a", "Z", "7", "_", ".", "-"}
OtherChars == {" ", "/"}
NameChars == AllowedChars \cup OtherChars

\* replace without the g flag: only the first match is replaced
safeNameFirstOnly(name) ==
    [i \in 1..Len(name) |->
        IF name[i] \notin AllowedChars
           /\ \A j \in 1..(i - 1) : name[j] \in AllowedChars
        THEN "_" ELSE name[i]]

\* fileName.replace(/[^a-zA-Z0-9_.-]/g, '_'), line 195
safeName(name) ==
    [i \in 1..Len(name) |-> IF name[i] \in AllowedChars THEN name[i] ELSE "_"]

\* `${safeName}.png`, line 196
exportedFileName(name) == safeName(name) \o <<".", "p", "n", "g">>

\* The hint the editor sessions are run with.
FileNameHint == <<"a", " ", "7">>

\* no computation probed
NoProbe == [kind |-> "none"]

(***************************************************************************)
(* Inputs.                                                                 *)
(***************************************************************************)
\* Source images the editor is opened on: 2 x 2 pictures, one with a
\* transparent pixel, none symmetric under rotation.
SourceImages ==
    { MkBuffer(2, 2, <<P0, P1, P2, P0>>),
      MkBuffer(2, 2, <<P0, P0, PT, P2>>) }

\* Values the scale slider of lines 245-251 reports (30..200 in steps of 5).
ScaleValues == {50, 100, 150}

\* Values the tolerance slider of lines 274-280 reports (5..80 in steps of 5).
ToleranceValues == {10, 30}

\* Every buffer of at most MaxPixels pixels over the palette.
FillBuffers ==
    UNION { { MkBuffer(w, h, px) : px \in [1..(w * h) -> Palette] } :
            <<w, h>> \in { d \in (1..MaxPixels) \X (1..MaxPixels) :
                           d[1] * d[2] <= MaxPixels } }

(***************************************************************************)
(* The observer variables: what each handler saw when it started.          *)
(***************************************************************************)
Observe(g, sd, er) ==
    /\ gesture' = g
    /\ seed' = sd
    /\ preCanvas' = canvas
    /\ preHistory' = history
    /\ clickBefore' = CASE g = "click" -> canvas
                         [] g = "undo" /\ gesture = "click" -> clickBefore
                         [] OTHER -> NoImage
    /\ geometryChanged' = CASE g \in {"rotate", "scale"} ->
                                 IF Len(history) > 1 THEN "edited" ELSE "clean"
                             [] g = "undo" -> geometryChanged
                             [] OTHER -> "no"
    /\ noopUndos' = CASE g # "undo" \/ Len(history) > 1 -> 0
                       [] noopUndos < 2 -> noopUndos + 1
                       [] OTHER -> noopUndos
    /\ erased' = er

\* Linear positions of the pixels that are opaque in a and transparent in b.
NewlyTransparent(a, b) ==
    { p \in 0..(a.width * a.height - 1) :
        Sample(a.data, p * 4 + 3) > 0 /\ Sample(b.data, p * 4 + 3) = 0 }

\* What the parent holds and the in-flight work of the browser.
hostVars == <<open, loading, closeRequested, exportPending, onSaveFile,
              fileName, imageUrl, probe>>

\* Every variable but the probe.
editorVars == <<open, loading, closeRequested, exportPending, onSaveFile,
                fileName, imageUrl, ready, rotation, scale, bgRemoveMode, tolerance,
                history, originalImage, canvas, effectPending, gesture, seed,
                preCanvas, preHistory, clickBefore, geometryChanged,
                noopUndos, erased>>

\* No effect, parent re-render or toBlob callback is due.
Quiescent == ~effectPending /\ ~closeRequested /\ exportPending = NoImage

\* The dialog is mounted and the next event is a gesture of the user.
AcceptsGesture == open /\ Quiescent

(***************************************************************************)
(* The state after construction with the dialog closed: no image, no       *)
(* canvas; the first effects have run and returned at lines 34 and 50.     *)
(***************************************************************************)
EditorClosed ==
    /\ open = FALSE
    /\ loading = {}
    /\ closeRequested = FALSE
    /\ exportPending = NoImage
    /\ onSaveFile = NoFile
    /\ fileName = FileNameHint
    /\ imageUrl = NoImage
    /\ ready = FALSE
    /\ rotation = 0
    /\ scale = 100
    /\ bgRemoveMode = FALSE
    /\ tolerance = 30
    /\ history = <<>>
    /\ originalImage = NoImage
    /\ canvas = NoCanvas
    /\ effectPending = FALSE
    /\ gesture = "none"
    /\ seed = <<0, 0>>
    /\ preCanvas = NoCanvas
    /\ preHistory = <<>>
    /\ clickBefore = NoImage
    /\ geometryChanged = "no"
    /\ noopUndos = 0
    /\ erased = {}

Init == EditorClosed /\ probe = NoProbe

(***************************************************************************)
(* The parent opening and closing the dialog.                              *)
(***************************************************************************)
\* The parent renders the dialog with open = true on the picture img: a blank
\* canvas is mounted (lines 216-220) and the effect of lines 33-44 starts the
\* load.  No dependency of renderCanvas changed, so it does not run.
OpenModal(img) ==
    /\ ~open
    /\ Quiescent
    /\ Cardinality(loading \cup {img}) <= MaxLoading
    /\ open' = TRUE
    /\ loading' = loading \cup {img}
    /\ imageUrl' = img
    /\ canvas' = BlankCanvas
    /\ ready' = FALSE
    /\ UNCHANGED <<closeRequested, exportPending, onSaveFile, fileName, probe,
                   rotation, scale, bgRemoveMode, tolerance, history,
                   originalImage, effectPending>>
    /\ Observe("open", <<0, 0>>, {})

\* The Cancel button, line 301: onOpenChange(false)
handleCancel ==
    /\ AcceptsGesture
    /\ closeRequested' = TRUE
    /\ UNCHANGED <<open, loading, exportPending, onSaveFile, fileName, imageUrl, probe,
                   ready, rotation, scale, bgRemoveMode, tolerance, history,
                   originalImage, canvas, effectPending>>
    /\ Observe("cancel", <<0, 0>>, {})

\* The parent answers onOpenChange(false) by rendering with open = false: the
\* dialog content and its canvas are unmounted (lines 204-205), the state of
\* lines 25-30 is kept.
ParentCloses ==
    /\ closeRequested
    /\ open' = FALSE
    /\ closeRequested' = FALSE
    /\ canvas' = NoCanvas
    /\ ready' = FALSE
    /\ onSaveFile' = NoFile
    /\ UNCHANGED <<loading, exportPending, fileName, imageUrl, probe,
                   rotation, scale, bgRemoveMode, tolerance, history,
                   originalImage, effectPending>>
    /\ Observe("close", <<0, 0>>, {})

(***************************************************************************)
(* The handlers and the effect.                                            *)
(***************************************************************************)
\* an onload that forgets setScale(100)
ImgOnloadKeepScale(img) ==
    /\ Quiescent
    /\ img \in loading
    /\ loading' = loading \ {img}
    /\ originalImage' = img
    /\ rotation' = 0
    /\ scale' = scale
    /\ history' = <<>>
    /\ effectPending' = TRUE
    /\ ready' = open
    /\ UNCHANGED <<open, closeRequested, exportPending, onSaveFile, fileName, imageUrl,
                   probe, bgRemoveMode, tolerance, canvas>>
    /\ Observe("load", <<0, 0>>, {})

\* img.onload, lines 37-42; the effect has no cleanup, so the load completes
\* whether or not the dialog is still open.
ImgOnload(img) ==
    /\ Quiescent
    /\ img \in loading
    /\ loading' = loading \ {img}
    /\ originalImage' = img
    /\ rotation' = 0
    /\ scale' = 100
    /\ history' = <<>>
    /\ effectPending' = TRUE
    /\ ready' = open
    /\ UNCHANGED <<open, closeRequested, exportPending, onSaveFile, fileName, imageUrl,
                   probe, bgRemoveMode, tolerance, canvas>>
    /\ Observe("load", <<0, 0>>, {})

\* an image error that resets the session as a completed load does
ImgOnerrorResets(img) ==
    /\ Quiescent
    /\ img \in loading
    /\ loading' = loading \ {img}
    /\ rotation' = 0
    /\ scale' = 100
    /\ history' = <<>>
    /\ effectPending' = TRUE
    /\ UNCHANGED <<open, closeRequested, exportPending, onSaveFile, fileName,
                   imageUrl, probe, ready, bgRemoveMode, tolerance,
                   originalImage, canvas>>
    /\ Observe("loadFailed", <<0, 0>>, {})

\* The fetch of img fails: lines 35-43 set no onerror handler, so nothing
\* of the component runs.
ImgOnerror(img) ==
    /\ Quiescent
    /\ img \in loading
    /\ loading' = loading \ {img}
    /\ UNCHANGED <<open, closeRequested, exportPending, onSaveFile, fileName,
                   imageUrl, probe, ready, rotation, scale, bgRemoveMode,
                   tolerance, history, originalImage, canvas, effectPending>>
    /\ Observe("loadFailed", <<0, 0>>, {})

\* The parent renders the open dialog with another imageUrl: the effect of
\* lines 33-44 runs again and starts the load of img; it has no cleanup, so
\* the loads started before go on.
changeImageUrl(img) ==
    /\ AcceptsGesture
    /\ img # imageUrl
    /\ imageUrl' = img
    /\ loading' = loading \cup {img}
    /\ UNCHANGED <<open, closeRequested, exportPending, onSaveFile, fileName,
                   probe, ready, rotation, scale, bgRemoveMode, tolerance,
                   history, originalImage, canvas, effectPending>>
    /\ Observe("url", <<0, 0>>, {})

\* The effect of lines 77-79 running renderCanvas (lines 47-75).  Seeding the
\* history changes history.length, so the effect is due once more.
RenderEffect ==
    /\ effectPending
    /\ LET drawn == renderCanvas(originalImage, rotation, scale, history, canvas)
           hist  == renderHistory(originalImage, history, drawn)
       IN  /\ canvas' = drawn
           /\ history' = hist
           /\ effectPending' = (Len(hist) # Len(history))
    /\ UNCHANGED hostVars
    /\ UNCHANGED <<ready, rotation, scale, bgRemoveMode, tolerance, originalImage,
                   gesture, seed, preCanvas, preHistory, clickBefore,
                   geometryChanged, noopUndos, erased>>

\* a counter-clockwise turn without the + 360 of line 85
nextRotationNoWrap(prev, dir) ==
    IF dir = "cw" THEN (prev + 90) % 360 ELSE prev - 90

\* a clockwise turn without the % 360 of line 84
nextRotationNoModulo(prev, dir) ==
    IF dir = "cw" THEN prev + 90 ELSE (prev - 90 + 360) % 360

\* lines 83-86
nextRotation(prev, dir) ==
    IF dir = "cw" THEN (prev + 90) % 360 ELSE (prev - 90 + 360) % 360

\* a rotation that also puts the scale back to 100
handleRotateResetsScale(dir) ==
    /\ AcceptsGesture
    /\ history' = <<>>
    /\ rotation' = nextRotation(rotation, dir)
    /\ scale' = 100
    /\ effectPending' = TRUE
    /\ UNCHANGED hostVars
    /\ UNCHANGED <<ready, bgRemoveMode, tolerance, originalImage, canvas>>
    /\ Observe("rotate", <<0, 0>>, {})

\* a rotation that forgets setHistory([])
handleRotateKeepHistory(dir) ==
    /\ AcceptsGesture
    /\ history' = history
    /\ rotation' = nextRotation(rotation, dir)
    /\ effectPending' = TRUE
    /\ UNCHANGED hostVars
    /\ UNCHANGED <<ready, scale, bgRemoveMode, tolerance, originalImage, canvas>>
    /\ Observe("rotate", <<0, 0>>, {})

\* lines 81-87
handleRotate(dir) ==
    /\ AcceptsGesture
    /\ history' = <<>>
    /\ rotation' = nextRotation(rotation, dir)
    /\ effectPending' = TRUE
    /\ UNCHANGED hostVars
    /\ UNCHANGED <<ready, scale, bgRemoveMode, tolerance, originalImage, canvas>>
    /\ Observe("rotate", <<0, 0>>, {})

\* a scale change that forgets setHistory([])
handleScaleChangeKeepHistory(value) ==
    /\ AcceptsGesture
    /\ history' = history
    /\ scale' = value
    /\ effectPending' = (value # scale)
    /\ UNCHANGED hostVars
    /\ UNCHANGED <<ready, rotation, bgRemoveMode, tolerance, originalImage, canvas>>
    /\ Observe("scale", <<0, 0>>, {})

\* lines 89-92
handleScaleChange(value) ==
    /\ AcceptsGesture
    /\ history' = <<>>
    /\ scale' = value
    /\ effectPending' = (value # scale \/ Len(history) # 0)
    /\ UNCHANGED hostVars
    /\ UNCHANGED <<ready, rotation, bgRemoveMode, tolerance, originalImage, canvas>>
    /\ Observe("scale", <<0, 0>>, {})

\* line 264
toggleBgRemoveMode ==
    /\ AcceptsGesture
    /\ bgRemoveMode' = ~bgRemoveMode
    /\ UNCHANGED hostVars
    /\ UNCHANGED <<ready, rotation, scale, tolerance, history, originalImage,
                   canvas, effectPending>>
    /\ Observe("mode", <<0, 0>>, erased)

\* a tolerance change that makes the render effect due
setToleranceRerender(value) ==
    /\ AcceptsGesture
    /\ tolerance' = value
    /\ effectPending' = TRUE
    /\ UNCHANGED hostVars
    /\ UNCHANGED <<ready, rotation, scale, bgRemoveMode, history,
                   originalImage, canvas>>
    /\ Observe("tolerance", <<0, 0>>, erased)

\* line 279
setTolerance(value) ==
    /\ AcceptsGesture
    /\ tolerance' = value
    /\ UNCHANGED hostVars
    /\ UNCHANGED <<ready, rotation, scale, bgRemoveMode, history,
                   originalImage, canvas, effectPending>>
    /\ Observe("tolerance", <<0, 0>>, erased)

\* floodFill(startX, startY), lines 95-154, on the mounted canvas
floodFill(startX, startY) ==
    /\ history' = floodFillHistory(history, canvas, startX, startY)
    /\ canvas' = floodFillCanvas(canvas, startX, startY, tolerance)
    /\ effectPending' = (Len(history') # Len(history))

\* a click handler without the check of line 157
handleCanvasClickAnyMode(x, y) ==
    /\ AcceptsGesture
    /\ Len(history) < MaxHistory
    /\ floodFill(x, y)
    /\ Observe(IF bgRemoveMode THEN "click" ELSE "clickOff", <<x, y>>,
               erased \cup NewlyTransparent(canvas, canvas'))
    /\ UNCHANGED hostVars
    /\ UNCHANGED <<ready, rotation, scale, bgRemoveMode, tolerance,
                   originalImage>>

\* handleCanvasClick (lines 156-168) calling floodFill with the buffer
\* coordinates x, y of the click.
handleCanvasClick(x, y) ==
    /\ AcceptsGesture
    /\ Len(history) < MaxHistory
    /\ IF bgRemoveMode
       THEN /\ floodFill(x, y)
            /\ Observe("click", <<x, y>>,
                       erased \cup NewlyTransparent(canvas, canvas'))
       ELSE /\ UNCHANGED <<history, canvas, effectPending>>
            /\ Observe("clickOff", <<x, y>>, erased)
    /\ UNCHANGED hostVars
    /\ UNCHANGED <<ready, rotation, scale, bgRemoveMode, tolerance,
                   originalImage>>

\* lines 170-184
handleUndo ==
    /\ AcceptsGesture
    /\ history' = handleUndoHistory(history)
    /\ canvas' = handleUndoCanvas(history, canvas)
    /\ effectPending' = (Len(history') # Len(history))
    /\ UNCHANGED hostVars
    /\ UNCHANGED <<ready, rotation, scale, bgRemoveMode, tolerance,
                   originalImage>>
    /\ Observe("undo", seed, {})

\* handleSave, lines 186-190: canvas.toBlob starts encoding the bitmap the
\* canvas holds now.
handleSave ==
    /\ AcceptsGesture
    /\ exportPending' = canvas
    /\ UNCHANGED <<open, loading, closeRequested, onSaveFile, fileName, imageUrl, probe, ready,
                   rotation, scale, bgRemoveMode, tolerance, history,
                   originalImage, canvas, effectPending>>
    /\ Observe("save", <<0, 0>>, erased)

\* a toBlob callback that empties the history before handing the file over
toBlobCallbackClearsHistory(ok) ==
    /\ exportPending # NoImage
    /\ exportPending' = NoImage
    /\ history' = IF ok THEN <<>> ELSE history
    /\ gesture' = IF ok THEN "saved" ELSE "saveFailed"
    /\ onSaveFile' = IF ok THEN [name   |-> exportedFileName(fileName),
                                 pixels |-> exportPending]
                     ELSE onSaveFile
    /\ closeRequested' = ok
    /\ UNCHANGED <<open, loading, fileName, imageUrl, probe, ready, rotation, scale,
                   bgRemoveMode, tolerance, originalImage, canvas,
                   effectPending, seed, preCanvas, preHistory, clickBefore,
                   geometryChanged, noopUndos, erased>>

\* a toBlob callback that asks the parent to close whether or not there is a blob
toBlobCallbackAlwaysCloses(ok) ==
    /\ exportPending # NoImage
    /\ exportPending' = NoImage
    /\ gesture' = IF ok THEN "saved" ELSE "saveFailed"
    /\ onSaveFile' = IF ok THEN [name   |-> exportedFileName(fileName),
                                 pixels |-> exportPending]
                     ELSE onSaveFile
    /\ closeRequested' = TRUE
    /\ UNCHANGED <<open, loading, fileName, imageUrl, probe, ready, rotation, scale,
                   bgRemoveMode, tolerance, history, originalImage, canvas,
                   effectPending, seed, preCanvas, preHistory, clickBefore,
                   geometryChanged, noopUndos, erased>>

\* The callback of canvas.toBlob, lines 190-200: ok is whether the browser
\* produced a blob.  PNG is lossless, the blob is the bitmap it encodes.
toBlobCallback(ok) ==
    /\ exportPending # NoImage
    /\ exportPending' = NoImage
    /\ gesture' = IF ok THEN "saved" ELSE "saveFailed"
    /\ onSaveFile' = IF ok THEN [name   |-> exportedFileName(fileName),
                                 pixels |-> exportPending]
                     ELSE onSaveFile
    /\ closeRequested' = ok
    /\ UNCHANGED <<open, loading, fileName, imageUrl, probe, ready, rotation, scale,
                   bgRemoveMode, tolerance, history, originalImage, canvas,
                   effectPending, seed, preCanvas, preHistory, clickBefore,
                   geometryChanged, noopUndos, erased>>

\* The gestures of the user, the parent and the browser.  The user clicks on
\* the canvas once the picture of the session is on it; every other gesture
\* is also taken between the opening of the dialog and the end of the load.
Next ==
    \/ \E img \in SourceImages : OpenModal(img)
    \/ handleCancel
    \/ ParentCloses
    \/ \E img \in SourceImages : ImgOnload(img)
    \/ RenderEffect
    \/ \E dir \in {"cw", "ccw"} : handleRotate(dir)
    \/ \E value \in ScaleValues : handleScaleChange(value)
    \/ toggleBgRemoveMode
    \/ \E value \in ToleranceValues : setTolerance(value)
    \/ \E x \in 0..(canvas.width - 1), y \in 0..(canvas.height - 1) :
          ready /\ handleCanvasClick(x, y)
    \/ handleUndo
    \/ handleSave
    \/ \E ok \in BOOLEAN : toBlobCallback(ok)

Spec == Init /\ [][Next]_vars

(***************************************************************************)
(* The flood fill on every small buffer: the editor just after an image    *)
(* has loaded and been rendered at rotation 0, scale 100 (the canvas is    *)
(* then the image itself), erase mode switched on, any tolerance chosen.   *)
(***************************************************************************)
\* The editor open on img, loaded and rendered, in erase mode.
Loaded(img, tol, name) ==
    /\ open = TRUE
    /\ loading = {}
    /\ closeRequested = FALSE
    /\ exportPending = NoImage
    /\ onSaveFile = NoFile
    /\ fileName = name
    /\ imageUrl = img
    /\ probe = NoProbe
    /\ ready = TRUE
    /\ rotation = 0
    /\ scale = 100
    /\ bgRemoveMode = TRUE
    /\ tolerance = tol
    /\ originalImage = img
    /\ canvas = renderCanvas(img, 0, 100, <<>>, BlankCanvas)
    /\ history = <<canvas>>
    /\ effectPending = FALSE
    /\ gesture = "tolerance"
    /\ seed = <<0, 0>>
    /\ preCanvas = canvas
    /\ preHistory = history
    /\ clickBefore = NoImage
    /\ geometryChanged = "no"
    /\ noopUndos = 0
    /\ erased = {}

FillInit ==
    \E img \in FillBuffers, tol \in ToleranceValues :
        Loaded(img, tol, FileNameHint)

\* One click on each buffer, then its effect.
FillNext ==
    \/ \E x \in 0..(canvas.width - 1), y \in 0..(canvas.height - 1) :
          gesture # "click" /\ handleCanvasClick(x, y)
    \/ RenderEffect

FillSpec == FillInit /\ [][FillNext]_vars

(***************************************************************************)
(* floodFill called with a seed outside the buffer, on every buffer of at  *)
(* most MaxSeedPixels pixels.                                              *)
(***************************************************************************)
SeedBuffers ==
    UNION { { MkBuffer(w, h, px) : px \in [1..(w * h) -> Palette] } :
            <<w, h>> \in { d \in (1..MaxSeedPixels) \X (1..MaxSeedPixels) :
                           d[1] * d[2] <= MaxSeedPixels } }

\* The coordinates just outside cv: x < 0, x >= width, y < 0 or y >= height.
OutsideSeeds(cv) ==
    { s \in ((-1)..cv.width) \X ((-1)..cv.height) :
        s[1] < 0 \/ s[1] >= cv.width \/ s[2] < 0 \/ s[2] >= cv.height }

SeedInit ==
    \E img \in SeedBuffers, tol \in ToleranceValues :
        Loaded(img, tol, FileNameHint)

\* One call on each buffer, then its effect.
SeedNext ==
    \/ \E s \in OutsideSeeds(canvas) :
          gesture # "click" /\ handleCanvasClick(s[1], s[2])
    \/ RenderEffect

SeedSpec == SeedInit /\ [][SeedNext]_vars

(***************************************************************************)
(* The export under every file-name hint of at most MaxNameLen characters. *)
(***************************************************************************)
FileNames == UNION { [1..n -> NameChars] : n \in 0..MaxNameLen }

NameInit ==
    \E img \in SourceImages, name \in FileNames : Loaded(img, 30, name)

NameNext ==
    \/ handleSave
    \/ \E ok \in BOOLEAN : toBlobCallback(ok)
    \/ ParentCloses

NameSpec == NameInit /\ [][NameNext]_vars

(***************************************************************************)
(* The while loop of floodFill (lines 133-151) one iteration at a time, on *)
(* every buffer of at most MaxPixels pixels over three colours, from every *)
(* seed.  The probe holds the locals of floodFill and counts the pixels    *)
(* made transparent and the coordinates pushed.                            *)
(***************************************************************************)
\* a colour, one that differs from it by more than the tolerance, and a
\* transparent one
LoopPalette == {P0, P2, PT}

LoopTolerance == 10

LoopBuffers ==
    UNION { { MkBuffer(w, h, px) : px \in [1..(w * h) -> LoopPalette] } :
            <<w, h>> \in { d \in (1..MaxPixels) \X (1..MaxPixels) :
                           d[1] * d[2] <= MaxPixels } }

\* The locals of floodFill when the loop is reached (lines 101-119); a
\* transparent seed returns at line 115 and the loop is not entered.
LoopInit ==
    /\ EditorClosed
    /\ \E buf \in LoopBuffers :
         \E x \in 0..(buf.width - 1), y \in 0..(buf.height - 1) :
            LET startIdx == (y * buf.width + x) * 4
            IN  probe = [kind |-> "fill", src |-> buf, startX |-> x, startY |-> y,
                         target |-> <<Sample(buf.data, startIdx),
                                      Sample(buf.data, startIdx + 1),
                                      Sample(buf.data, startIdx + 2)>>,
                         data |-> buf.data, visited |-> {},
                         stack |-> IF Sample(buf.data, startIdx + 3) = 0
                                   THEN <<>> ELSE <<x, y>>,
                         erasures |-> 0, pushes |-> 0]

\* One iteration of the loop, lines 133-151.
fillIteration ==
    /\ probe.kind = "fill"
    /\ Len(probe.stack) > 0
    /\ LET n    == Len(probe.stack)
           y    == probe.stack[n]
           x    == probe.stack[n - 1]
           rest == SubSeq(probe.stack, 1, n - 2)
           pos  == y * probe.src.width + x
           idx  == pos * 4
       IN  IF \/ x < 0 \/ x >= probe.src.width \/ y < 0 \/ y >= probe.src.height
              \/ pos \in probe.visited
              \/ ~matches(probe.data, idx, probe.target, LoopTolerance)
           THEN probe' = [probe EXCEPT !.stack = rest]
           ELSE probe' = [probe EXCEPT
                            !.data = makeTransparent(probe.data, idx),
                            !.visited = probe.visited \cup {pos},
                            !.stack = pushNeighbours(rest, x, y),
                            !.erasures = @ + 1,
                            !.pushes = @ + (Len(pushNeighbours(rest, x, y))
                                            - Len(rest)) \div 2]
    /\ UNCHANGED <<open, loading, closeRequested, exportPending, onSaveFile,
                   fileName, imageUrl, ready, rotation, scale, bgRemoveMode,
                   tolerance, history, originalImage, canvas, effectPending,
                   gesture, seed, preCanvas, preHistory, clickBefore,
                   geometryChanged, noopUndos, erased>>

LoopNext == fillIteration

\* The loop is synchronous code: while an iteration is possible, one runs.
LoopSpec == LoopInit /\ [][LoopNext]_vars /\ WF_vars(LoopNext)

(***************************************************************************)
(* The mapping of a click to a buffer coordinate, lines 161-165, along one *)
(* axis: d is the distance of the pointer from the left (top) edge of the  *)
(* displayed canvas, a whole number of CSS pixels or, with last, the       *)
(* largest double below the displayed size.                                *)
(***************************************************************************)
\* Small sizes, and sizes where the double arithmetic shows.
MapSizes == (1..MaxMapDim) \cup {17, 22, 30}

\* <<d, size, displayed>>, sizes up to 5 or 17, 22, 30, for which the double
\* d * (size / displayed) is just below the whole number d * size / displayed.
FloatMapShortfall == {<<11, 30, 22>>}

\* <<size, displayed>>, sizes up to 5 or 17, 22, 30, for which the double
\* product of size / displayed and the largest double below displayed is
\* size itself.
FloatEdgeOverflow == {<<17, 3>>, <<3, 30>>}

\* Math.floor((e.clientX - rect.left) * scaleX), lines 162-164
mapCoordinate(d, last, size, displayed) ==
    IF last
    THEN IF <<size, displayed>> \in FloatEdgeOverflow THEN size ELSE size - 1
    ELSE IF <<d, size, displayed>> \in FloatMapShortfall
         THEN (d * size) \div displayed - 1
         ELSE (d * size) \div displayed

MapInit ==
    /\ EditorClosed
    /\ \E size \in MapSizes, displayed \in MapSizes :
          probe = [kind |-> "map", size |-> size, displayed |-> displayed,
                   d |-> 0, last |-> FALSE, x |-> 0, clicked |-> FALSE]

\* A click at distance d (or just inside the far edge) of the displayed canvas.
mapClick(d, last) ==
    /\ probe.kind = "map"
    /\ probe' = [probe EXCEPT !.d = d, !.last = last, !.clicked = TRUE,
                   !.x = mapCoordinate(d, last, probe.size, probe.displayed)]
    /\ UNCHANGED editorVars

MapNext ==
    \/ \E d \in 0..(probe.displayed - 1) : mapClick(d, FALSE)
    \/ mapClick(probe.displayed - 1, TRUE)

MapSpec == MapInit /\ [][MapNext]_vars

(***************************************************************************)
(* The loads: pictures asked for by opening the dialog and by changing the *)
(* imageUrl of the open dialog, their loads completing or failing in any   *)
(* order, between rotations and scale changes.                             *)
(***************************************************************************)
LoadNext ==
    \/ \E img \in SourceImages : OpenModal(img)
    \/ \E img \in SourceImages : changeImageUrl(img)
    \/ \E img \in SourceImages : ImgOnload(img)
    \/ \E img \in SourceImages : ImgOnerror(img)
    \/ RenderEffect
    \/ \E dir \in {"cw", "ccw"} : handleRotate(dir)
    \/ \E value \in ScaleValues : handleScaleChange(value)
    \/ handleCancel
    \/ ParentCloses

LoadSpec == Init /\ [][LoadNext]_vars

(***************************************************************************)
(* The configuration under rotations, both sliders moved to their ends,    *)
(* and loads, on a 4 x 4 picture (which every slider value renders at one  *)
(* pixel or more).                                                         *)
(***************************************************************************)
ConfigImages == { MkBuffer(4, 4, [p \in 1..16 |-> P0]) }

\* The ends of the scale slider of lines 245-251, the values next to them
\* and the initial value.
EdgeScaleValues == {30, 35, 100, 195, 200}

\* The ends of the tolerance slider of lines 274-280, the values next to
\* them and the initial value.
EdgeToleranceValues == {5, 10, 30, 75, 80}

ConfigNext ==
    \/ \E img \in ConfigImages : OpenModal(img)
    \/ \E img \in ConfigImages : ImgOnload(img)
    \/ RenderEffect
    \/ \E dir \in {"cw", "ccw"} : handleRotate(dir)
    \/ \E value \in EdgeScaleValues : handleScaleChange(value)
    \/ \E value \in EdgeToleranceValues : setTolerance(value)
    \/ handleCancel
    \/ ParentCloses

ConfigSpec == Init /\ [][ConfigNext]_vars

(***************************************************************************)
(* The canvas size of lines 55-61 under rotations and scale changes, for   *)
(* source sizes too large to draw pixel by pixel: the probe holds the      *)
(* source width and height, the rotation and scale, the size of the canvas *)
(* after the render, and the net number of clockwise quarter turns.        *)
(***************************************************************************)
\* Every value the scale slider of lines 245-251 reports.
AllScaleValues == { 30 + 5 * k : k \in 0..34 }

\* Small sizes, and sizes where the scaled size is not a whole number or the
\* double falls short.
SourceDims == (1..MaxDim) \cup {45, 100, 101}

DimInit ==
    /\ EditorClosed
    /\ \E w \in SourceDims, h \in SourceDims :
          probe = [kind |-> "dims", srcW |-> w, srcH |-> h, rot |-> 0,
                   sc |-> 100, size |-> canvasSize(w, h, 0, 100), turns |-> 0]

\* handleRotate (lines 81-87) and the render that follows
rotateDims(dir) ==
    LET r == nextRotation(probe.rot, dir)
        t == IF dir = "cw" THEN probe.turns + 1 ELSE probe.turns - 1
    IN  /\ probe.kind = "dims"
        /\ t \in (-MaxTurns)..MaxTurns
        /\ probe' = [probe EXCEPT !.rot = r, !.turns = t,
                       !.size = canvasSize(probe.srcW, probe.srcH, r, probe.sc)]
        /\ UNCHANGED editorVars

\* handleScaleChange (lines 89-92) and the render that follows
scaleDims(value) ==
    /\ probe.kind = "dims"
    /\ probe' = [probe EXCEPT !.sc = value,
                   !.size = canvasSize(probe.srcW, probe.srcH, probe.rot, value)]
    /\ UNCHANGED editorVars

DimNext ==
    \/ \E dir \in {"cw", "ccw"} : rotateDims(dir)
    \/ \E value \in AllScaleValues : scaleDims(value)

DimSpec == DimInit /\ [][DimNext]_vars

(***************************************************************************)
(* The registrations list page, pages/dashboard/QRCodeRg6mTodos.tsx: its   *)
(* state, the list requests and the delete request in flight, and the      *)
(* number of records the remote API holds.  The API is outside the         *)
(* repository: a list request answers with the rows of the asked page and  *)
(* pagination.total as they are when it answers, or fails; a delete        *)
(* request removes one record, or fails.                                   *)
(***************************************************************************)
\* const ITEMS_PER_PAGE = 20, line 16
ITEMS_PER_PAGE == 20

\* Math.ceil(total / ITEMS_PER_PAGE), line 67
totalPages(total) == (total + ITEMS_PER_PAGE - 1) \div ITEMS_PER_PAGE

\* The records the API holds at first: two pages with one row on the last,
\* and MaxRecords.
ServerTotals == {ITEMS_PER_PAGE + 1, MaxRecords}

\* The pages goToPage is called with: every page there can be, and the ones
\* just outside.
PageInputs == 0..(totalPages(MaxRecords) + 1)

\* list_users.php?limit=20&offset=(page - 1) * 20, lines 72-73: the
\* positions of the rows answered, of n records.
PageRows(page, n) ==
    LET offset == (page - 1) * ITEMS_PER_PAGE
    IN  {i \in 1..n : i > offset /\ i <= offset + ITEMS_PER_PAGE}

\* data.pagination?.total || data.data.length, line 77
ResponseTotal(paginationTotal, rows) ==
    IF paginationTotal # 0 THEN paginationTotal ELSE Cardinality(rows)

\* A sequence without its i-th element.
RemoveAt(s, i) == SubSeq(s, 1, i - 1) \o SubSeq(s, i + 1, Len(s))

\* The page is mounted: the state of lines 60-65, and the effect of lines
\* 90-92 due.
ListInit ==
    /\ EditorClosed
    /\ \E n \in ServerTotals :
          probe = [kind |-> "list",
                   registrations |-> {},     \* useState([]), line 60
                   loading |-> TRUE,         \* useState(true), line 61
                   total |-> 0,              \* useState(0), line 62
                   currentPage |-> 1,        \* useState(1), line 63
                   deleteToken |-> FALSE,    \* a token is set, line 64
                   deleting |-> FALSE,       \* useState(false), line 65
                   effectPending |-> TRUE,   \* the effect of lines 90-92 is due
                   requests |-> <<>>,        \* list requests in flight
                   deletePost |-> <<>>,      \* the delete request in flight
                   serverTotal |-> n,        \* records the API holds
                   deleted |-> 0,            \* records deleted so far
                   shownPage |-> 0,          \* observer: page of the response shown
                   last |-> "mount",         \* observer: the last handler
                   page |-> 0]               \* observer: what goToPage was called with

\* The list and its buttons are rendered, lines 180-186, behind no dialog.
ListVisible ==
    /\ probe.kind = "list"
    /\ ~probe.effectPending
    /\ ~probe.loading
    /\ probe.registrations # {}
    /\ ~probe.deleteToken

\* loadRegistrations up to its first await, lines 69-73; the request of a
\* handleDelete is marked, for what follows its completion.
loadRegistrations(p, page, fromDelete) ==
    [p EXCEPT !.loading = TRUE,
              !.requests = Append(@, [page |-> page, fromDelete |-> fromDelete])]

\* useEffect(() => { loadRegistrations(currentPage) }, [currentPage, ...]),
\* lines 90-92
loadEffect ==
    /\ probe.kind = "list"
    /\ probe.effectPending
    /\ Len(probe.requests) < MaxInFlight
    /\ probe' = [loadRegistrations(probe, probe.currentPage, FALSE)
                   EXCEPT !.effectPending = FALSE, !.last = "effect", !.page = 0]
    /\ UNCHANGED editorVars

\* The Atualizar button, line 149: disabled while loading.
refresh ==
    /\ probe.kind = "list"
    /\ ~probe.effectPending
    /\ ~probe.loading
    /\ ~probe.deleteToken
    /\ Len(probe.requests) < MaxInFlight
    /\ probe' = [loadRegistrations(probe, probe.currentPage, FALSE)
                   EXCEPT !.last = "refresh", !.page = 0]
    /\ UNCHANGED editorVars

\* The rest of loadRegistrations, lines 74-87, when the answer to the i-th
\* request in flight arrives; and the finally of handleDelete, lines 113-116,
\* when that request is the one handleDelete awaits.
listResponse(i, ok) ==
    /\ probe.kind = "list"
    /\ i \in 1..Len(probe.requests)
    /\ LET request == probe.requests[i]
           rows == PageRows(request.page, probe.serverTotal)
       IN  probe' = [probe EXCEPT
                !.requests = RemoveAt(@, i),
                !.registrations = IF ok THEN rows ELSE {},
                !.total = IF ok THEN ResponseTotal(probe.serverTotal, rows) ELSE @,
                !.shownPage = request.page,
                !.loading = FALSE,
                !.deleting = IF request.fromDelete THEN FALSE ELSE @,
                !.deleteToken = IF request.fromDelete THEN FALSE ELSE @,
                !.last = "listResponse",
                !.page = 0]
    /\ UNCHANGED editorVars

\* The Excluir button of a row, lines 260 and 347: setDeleteToken(reg.token)
openDeleteDialog ==
    /\ ListVisible
    /\ probe' = [probe EXCEPT !.deleteToken = TRUE, !.last = "openDialog",
                              !.page = 0]
    /\ UNCHANGED editorVars

\* onOpenChange of the dialog, line 158 (Escape, a click outside, the close
\* button), and the Cancelar button, line 167, disabled while deleting.
dismissDeleteDialog ==
    /\ probe.kind = "list"
    /\ ~probe.effectPending
    /\ probe.deleteToken
    /\ probe' = [probe EXCEPT !.deleteToken = FALSE, !.last = "dismissDialog",
                              !.page = 0]
    /\ UNCHANGED editorVars

\* handleDelete up to its first await, lines 94-102: the Excluir button of
\* the dialog, line 170, disabled while deleting.  The currentPage it will
\* reload is the one of the render it was created in.
handleDelete ==
    /\ probe.kind = "list"
    /\ ~probe.effectPending
    /\ probe.deleteToken
    /\ ~probe.deleting
    /\ probe.deleted < MaxDeletes
    /\ probe' = [probe EXCEPT !.deleting = TRUE,
                              !.deletePost = <<probe.currentPage>>,
                              !.last = "handleDelete",
                              !.page = 0]
    /\ UNCHANGED editorVars

\* handleDelete from the answer of delete_user.php, lines 104-116: with
\* response.ok the record is gone and the list is loaded again; otherwise
\* the finally runs at once.
deleteResponse(ok) ==
    /\ probe.kind = "list"
    /\ probe.deletePost # <<>>
    /\ IF ok
       THEN /\ Len(probe.requests) < MaxInFlight
            /\ probe' = [loadRegistrations(probe, probe.deletePost[1], TRUE)
                           EXCEPT !.deletePost = <<>>,
                                  !.serverTotal = @ - 1,
                                  !.deleted = @ + 1,
                                  !.last = "deleteResponse",
                                  !.page = 0]
       ELSE probe' = [probe EXCEPT !.deletePost = <<>>,
                                   !.deleting = FALSE,
                                   !.deleteToken = FALSE,
                                   !.last = "deleteFailed",
                                   !.page = 0]
    /\ UNCHANGED editorVars

\* goToPage, lines 119-124, from the buttons of lines 361-381, rendered
\* with the list when there is more than one page.
goToPage(page) ==
    /\ ListVisible
    /\ totalPages(probe.total) > 1
    /\ probe' = [probe EXCEPT
                   !.currentPage =
                       IF page >= 1 /\ page <= totalPages(probe.total)
                       THEN page ELSE @,
                   !.effectPending =
                       (page >= 1 /\ page <= totalPages(probe.total)
                        /\ page # probe.currentPage),
                   !.last = "goToPage",
                   !.page = page]
    /\ UNCHANGED editorVars

ListNext ==
    \/ loadEffect
    \/ refresh
    \/ \E i \in 1..MaxInFlight, ok \in BOOLEAN : listResponse(i, ok)
    \/ openDeleteDialog
    \/ dismissDeleteDialog
    \/ handleDelete
    \/ \E ok \in BOOLEAN : deleteResponse(ok)
    \/ \E page \in PageInputs : goToPage(page)

ListSpec == ListInit /\ [][ListNext]_vars

(***************************************************************************)
(* Definitions the properties are stated with.                             *)
(***************************************************************************)
\* The picture of the session has loaded and no effect is due.
Settled == open /\ ready /\ ~effectPending

\* The state a click handler in erase mode has just left (its effect is due).
JustClicked == gesture = "click" /\ effectPending

\* The baseline of the current image, rotation and scale.
Baseline == DrawImage(originalImage, rotation, scale)

Alpha(buf, p) == Sample(buf.data, p * 4 + 3)

SeedPos(buf) == seed[2] * buf.width + seed[1]

\* Pixel p of buf is opaque and each of its R, G, B is within tol of pixel s's.
Similar(buf, s, p, tol) ==
    /\ Alpha(buf, p) > 0
    /\ \A c \in 0..2 :
          Abs(Sample(buf.data, p * 4 + c) - Sample(buf.data, s * 4 + c)) <= tol

\* Positions p and q are one step apart: left/right in a row or up/down in a column.
Adjacent(buf, p, q) ==
    \/ p \div buf.width = q \div buf.width /\ Abs(p - q) = 1
    \/ p % buf.width = q % buf.width /\ Abs(p - q) = buf.width

\* The positions reachable from s by such steps through pixels similar to s.
RECURSIVE Grow(_, _, _, _)
Grow(buf, s, tol, S) ==
    LET more == { q \in 0..(buf.width * buf.height - 1) :
                    /\ Similar(buf, s, q, tol)
                    /\ \E p \in S : Adjacent(buf, p, q) }
    IN  IF more \subseteq S THEN S ELSE Grow(buf, s, tol, S \cup more)

Region(buf, s, tol) ==
    IF Alpha(buf, s) > 0 THEN Grow(buf, s, tol, {s}) ELSE {}

C2_ErasedStayTransparent ==
    \A p \in erased :
        /\ p < canvas.width * canvas.height
        /\ Alpha(canvas, p) = 0

\* C3: in a settled state the canvas is the last history entry, and the entry
\* a click that erased pixels appends is the buffer the fill produced.
C3_CanvasIsHistoryLast ==
    /\ (Settled /\ Len(history) > 0) => canvas = history[Len(history)]
    /\ (JustClicked /\ canvas # preCanvas) => history[Len(history)] = canvas

\* C4: a click in erase mode on a seed whose alpha is 0 leaves the history as
\* it was.
C4_TransparentSeedNoPush ==
    (/\ gesture = "click"
     /\ originalImage # NoImage
     /\ Alpha(preCanvas, SeedPos(preCanvas)) = 0)
    => history = preHistory

\* C5: the pixels a fill from an opaque seed makes transparent are exactly
\* those reachable from the seed by up/down/left/right steps through opaque
\* pixels whose R, G and B are each within the tolerance of the seed's.
C5_FillIsRegion ==
    (JustClicked /\ Alpha(preCanvas, SeedPos(preCanvas)) > 0)
    => NewlyTransparent(preCanvas, canvas)
         = Region(preCanvas, SeedPos(preCanvas), tolerance)

\* C5 witness: a fill that takes some opaque pixels and leaves others.
C5_Witness ==
    /\ JustClicked
    /\ Cardinality(NewlyTransparent(preCanvas, canvas)) >= 2
    /\ \E p \in 0..(canvas.width * canvas.height - 1) : Alpha(canvas, p) > 0

\* C6: a fill keeps the width, the height, every R, G and B sample, and the
\* alpha of every pixel outside the region of the seed.
C6_FillFrame ==
    JustClicked =>
      /\ canvas.width = preCanvas.width
      /\ canvas.height = preCanvas.height
      /\ Len(canvas.data) = Len(preCanvas.data)
      /\ \A i \in 0..(Len(preCanvas.data) - 1) :
            (i % 4 # 3 \/ (i \div 4) \notin Region(preCanvas, SeedPos(preCanvas), tolerance))
            => Sample(canvas.data, i) = Sample(preCanvas.data, i)

\* C6 witness: a fill that changed the canvas while an opaque pixel
\* diagonal to the seed's region stayed.
C6_Witness ==
    /\ JustClicked
    /\ canvas # preCanvas
    /\ canvas.width = 2 /\ canvas.height = 2
    /\ \E p \in 0..3 : Alpha(canvas, p) > 0 /\ Sample(canvas.data, p * 4) = 100

\* C7: filling again from the same seed with the same tolerance changes
\* nothing, and a fill from a transparent seed changes nothing.
C7_FillIdempotent ==
    JustClicked =>
      /\ floodFillCanvas(canvas, seed[1], seed[2], tolerance) = canvas
      /\ Alpha(preCanvas, SeedPos(preCanvas)) = 0 => canvas = preCanvas

\* C7 witness: a first fill that erased pixels.
C7_Witness ==
    /\ JustClicked
    /\ NewlyTransparent(preCanvas, canvas) # {}
    /\ Alpha(canvas, SeedPos(canvas)) = 0

\* C8: an undo that finds at most one history entry leaves the history and
\* the canvas as they were and schedules no effect, however often it is
\* repeated; no undo removes or changes the entry at index 0.
C8_UndoAtBaselineNoOp ==
    /\ (gesture = "undo" /\ Len(preHistory) <= 1)
       => (history = preHistory /\ canvas = preCanvas /\ ~effectPending)
    /\ (gesture = "undo" /\ Len(preHistory) >= 1)
       => (Len(history) >= 1 /\ history[1] = preHistory[1])

\* C8 witness: the second of two undos in a row with only the baseline present.
C8_Witness ==
    /\ gesture = "undo"
    /\ noopUndos = 2
    /\ Len(preHistory) = 1
    /\ originalImage # NoImage

C10_GeometryChangeClearsHistory ==
    (Settled /\ geometryChanged = "edited")
    => (history = <<Baseline>> /\ canvas = Baseline)

\* C10 witness: undos after a rotation that discarded edits.
C10_Witness ==
    /\ Settled
    /\ geometryChanged = "edited"
    /\ gesture = "undo"
    /\ noopUndos = 2
    /\ rotation # 0

\* C11: after floodFill was called with a seed outside the buffer, the
\* canvas and the history are what they were before the call.
C11_OutsideSeedRejected ==
    (gesture = "click" /\ seed \in OutsideSeeds(preCanvas))
    => (canvas = preCanvas /\ history = preHistory)

\* n * sc / 100 rounded half up
RoundHalfUp(n, sc) == (n * sc + 50) \div 100

\* C12: the scaled width and height of the rendered canvas are the source
\* width and height times scale / 100, rounded half up.
C12_ScaledRoundHalfUp ==
    probe.kind = "dims"
    => LET w == RoundHalfUp(probe.srcW, probe.sc)
           h == RoundHalfUp(probe.srcH, probe.sc)
       IN  probe.size = IF probe.rot \in {90, 270} THEN <<h, w>> ELSE <<w, h>>

\* C13: the canvas is the scaled height by the scaled width when the
\* rotation is 90 or 270 and the scaled width by the scaled height when it
\* is 0 or 180; the rotation is the net number of clockwise quarter turns
\* times 90 modulo 360, so that after four turns one way, or one turn each
\* way, rotation and canvas size are what they were.
C13_SwapAndRotationCycle ==
    probe.kind = "dims"
    => LET sw == ScaledDim(probe.srcW, probe.sc)
           sh == ScaledDim(probe.srcH, probe.sc)
       IN  /\ probe.rot \in {0, 90, 180, 270}
           /\ probe.rot \in {90, 270} => probe.size = <<sh, sw>>
           /\ probe.rot \in {0, 180} => probe.size = <<sw, sh>>
           /\ probe.rot = ((probe.turns + 4 * MaxTurns) * 90) % 360
           /\ (probe.turns + 4 * MaxTurns) % 4 = 0
              => (probe.rot = 0 /\ probe.size = <<sw, sh>>)

\* C13 witness: four clockwise turns of a 2 x 3 picture shown at 150 %.
C13_Witness ==
    /\ probe.kind = "dims"
    /\ probe.turns = 4
    /\ probe.srcW = 2 /\ probe.srcH = 3
    /\ probe.sc = 150
    /\ probe.size = <<3, 4>>

\* C14: once the load of a picture in an open editor has settled, the
\* rotation is 0, the scale is 100, and the history is exactly one entry,
\* the rendering of the newly loaded picture at rotation 0 and scale 100,
\* which is also on the canvas.
C14_LoadResetsSession ==
    (gesture = "load" /\ Settled)
    => /\ rotation = 0
       /\ scale = 100
       /\ history = <<DrawImage(originalImage, 0, 100)>>
       /\ canvas = DrawImage(originalImage, 0, 100)

\* C14 witness: a load that found three history entries, the last one taken
\* at scale 150.
C14_Witness ==
    /\ gesture = "load"
    /\ Settled
    /\ Len(preHistory) = 3
    /\ preHistory[3].width = 3

\* C15: when the dialog has just been opened, the history holds no snapshot.
C15_OpenStartsWithEmptyHistory ==
    gesture = "open" => history = <<>>

C17_FailedExportRetryable ==
    /\ gesture = "saveFailed"
       => /\ open
          /\ ~closeRequested
          /\ onSaveFile = NoFile
          /\ canvas = preCanvas
          /\ history = preHistory
          /\ ENABLED handleSave
    /\ exportPending # NoImage => ENABLED toBlobCallback(TRUE)

\* C17 witness: a failed export of an edited session.
C17_Witness ==
    /\ gesture = "saveFailed"
    /\ Len(history) = 2
    /\ ready

\* C18: a step that changes the erase mode or the tolerance leaves canvas,
\* history, rotation and scale as they were and makes no render effect due.
C18_ModeAndToleranceFrame ==
    [][(bgRemoveMode' # bgRemoveMode \/ tolerance' # tolerance)
       => (UNCHANGED <<canvas, history, rotation, scale>> /\ ~effectPending')]_vars

\* C18 witness: erase mode switched off after the tolerance was changed and
\* clicks were made on a rotated picture.
C18_Witness ==
    /\ gesture = "mode"
    /\ ~bgRemoveMode
    /\ tolerance = 10
    /\ Len(history) = 3
    /\ rotation = 90

\* C19: after a canvas click with erase mode off, the canvas and the history
\* are what they were before the click and no render effect is due.
C19_ClickOffIgnored ==
    gesture = "clickOff"
    => (canvas = preCanvas /\ history = preHistory /\ ~effectPending)

\* C19 witness: a click with erase mode off on an opaque pixel of a loaded
\* picture.
C19_Witness ==
    /\ gesture = "clickOff"
    /\ ready
    /\ Len(history) = 2
    /\ Alpha(canvas, SeedPos(canvas)) > 0

\* C20: the name of the file handed to onSave is the hint, as long as the
\* hint, with every allowed character kept in its place and every other
\* character replaced by "_", followed by ".png"; every character before
\* the ".png" is an allowed one.
C20_ExportedNameSanitized ==
    gesture = "saved"
    => LET n == onSaveFile.name
           k == Len(fileName)
       IN  /\ Len(n) = k + 4
           /\ SubSeq(n, k + 1, k + 4) = <<".", "p", "n", "g">>
           /\ \A i \in 1..k :
                 /\ n[i] \in {"a", "Z", "7", "_", ".", "-"}
                 /\ n[i] = IF fileName[i] \in {"a", "Z", "7", "_", ".", "-"}
                           THEN fileName[i] ELSE "_"

\* C20 witness: the export under a hint with two characters to replace.
C20_Witness ==
    /\ gesture = "saved"
    /\ fileName = <<" ", "a", "/">>
    /\ onSaveFile.name = <<"_", "a", "_", ".", "p", "n", "g">>

\* C21: in every state the rotation is 0, 90, 180 or 270, the scale is a
\* whole number from 30 to 200 and the tolerance one from 5 to 80.
C21_ConfigurationInRange ==
    /\ rotation \in {0, 90, 180, 270}
    /\ scale \in 30..200
    /\ tolerance \in 5..80

\* C21 witness: the picture turned to 270 by a counter-clockwise turn, with
\* the scale at its upper end and the tolerance at its lower end.
C21_Witness ==
    /\ Settled
    /\ gesture = "rotate"
    /\ rotation = 270
    /\ scale = 200
    /\ tolerance = 5
    /\ canvas.width = 8

\* C22: the step in which the fetch of a picture fails leaves the picture
\* held, rotation, scale, erase mode, tolerance, history and canvas as they
\* were and makes no render effect due; in an open editor that never held
\* a picture the history is then still empty and the canvas still blank.
C22_FailedLoadKeepsState ==
    [][(gesture' = "loadFailed" /\ loading' # loading)
       => /\ UNCHANGED <<originalImage, rotation, scale, bgRemoveMode,
                         tolerance, history, canvas, effectPending>>
          /\ (open /\ originalImage = NoImage /\ history = <<>>)
             => (originalImage' = NoImage /\ history' = <<>>
                 /\ canvas' = BlankCanvas)]_vars

\* C22 witness: the first load of a freshly opened editor has failed.
C22_Witness ==
    /\ gesture = "loadFailed"
    /\ open
    /\ originalImage = NoImage
    /\ history = <<>>
    /\ canvas = BlankCanvas
    /\ loading = {}

\* C28: once the open editor holds the picture last asked for, the
\* completion of another load does not replace it.
C28_LatestUrlWins ==
    [][(open /\ ready /\ originalImage = imageUrl /\ gesture' = "load")
       => originalImage' = imageUrl']_vars

C24_GeometryChangeFrame ==
    /\ [][((gesture' = "rotate" /\ rotation' # rotation)
            => UNCHANGED <<scale, bgRemoveMode, tolerance>>)
           /\ ((gesture' = "scale" /\ scale' # scale)
               => UNCHANGED <<rotation, bgRemoveMode, tolerance>>)]_vars
    /\ []((gesture \in {"rotate", "scale"} /\ Settled)
           => canvas = DrawImage(originalImage, rotation, scale))

\* C24 witness: a settled rotation of a picture shown at 150 % with erase
\* mode on and the tolerance changed.
C24_Witness ==
    /\ Settled
    /\ gesture = "rotate"
    /\ rotation = 90
    /\ scale = 150
    /\ bgRemoveMode
    /\ tolerance = 10
    /\ canvas = DrawImage(originalImage, 90, 150)

\* C25: the loop of floodFill ends with an empty stack, with the buffer the
\* fill is defined to leave; on the way every pixel recorded as visited was
\* opaque and is transparent, a step that makes a pixel transparent makes
\* one not made transparent before, and at most four coordinates are pushed
\* per pixel made transparent.
C25_FillLoopTerminates ==
    /\ [](probe.kind = "fill"
          => /\ probe.erasures = Cardinality(probe.visited)
             /\ probe.erasures <= probe.src.width * probe.src.height
             /\ probe.pushes <= 4 * probe.erasures
             /\ \A p \in probe.visited :
                   /\ Sample(probe.src.data, p * 4 + 3) > 0
                   /\ Sample(probe.data, p * 4 + 3) = 0)
    /\ [][probe.erasures' # probe.erasures
           => /\ probe.erasures' = probe.erasures + 1
              /\ \E p \in probe.visited' \ probe.visited :
                    /\ probe.visited' = probe.visited \cup {p}
                    /\ Sample(probe.data, p * 4 + 3) > 0]_vars
    /\ <>(/\ probe.kind = "fill"
           /\ probe.stack = <<>>
           /\ probe.data = floodFillCanvas(probe.src, probe.startX, probe.startY,
                                          LoopTolerance).data)

\* C25 witness: the loop has ended after making three pixels of a 2 x 2
\* buffer transparent and leaving the fourth opaque.
C25_Witness ==
    /\ probe.kind = "fill"
    /\ probe.stack = <<>>
    /\ probe.src.width = 2 /\ probe.src.height = 2
    /\ probe.erasures = 3
    /\ probe.pushes = 12
    /\ \E p \in 0..3 : Sample(probe.data, p * 4 + 3) > 0

\* C26: a file is handed to onSave only when the editor holds a loaded
\* picture and a history that is not empty.
C26_NoExportWhileIdle ==
    onSaveFile # NoFile => (originalImage # NoImage /\ history # <<>>)

\* C27: a click inside the displayed canvas is mapped to a coordinate from
\* 0 to the buffer size less one, which for a whole distance d is
\* d * size / displayed rounded down.
C27_ClickMapsInside ==
    (probe.kind = "map" /\ probe.clicked)
    => /\ probe.x >= 0
       /\ probe.x < probe.size
       /\ ~probe.last => probe.x = (probe.d * probe.size) \div probe.displayed

\* C29: on the list page currentPage stays from 1 to the larger of 1 and
\* totalPages, whatever was navigated, reloaded and deleted; and goToPage
\* changes currentPage only to a page from 1 to totalPages.
C29_CurrentPageInRange ==
    /\ [](probe.kind = "list"
          => /\ probe.currentPage >= 1
             /\ \/ probe.currentPage = 1
                \/ probe.currentPage <= totalPages(probe.total))
    /\ [][(probe.kind = "list" /\ probe'.last = "goToPage"
           /\ probe'.currentPage # probe.currentPage)
          => (/\ probe'.currentPage = probe'.page
              /\ probe'.page >= 1
              /\ probe'.page <= totalPages(probe.total))]_vars

\* C30: on the list page loading is false only when no list request is in
\* flight, and once none is in flight (and no load is due) the rows shown
\* are those answered for the current page.
C30_CurrentPageShown ==
    probe.kind = "list"
    => /\ ~probe.loading => probe.requests = <<>>
       /\ (probe.requests = <<>> /\ ~probe.effectPending /\ probe.shownPage # 0)
          => probe.shownPage = probe.currentPage

====
